---- MODULE Spec2Model ----
(***************************************************************************)
(* DataLens sanity engine: the manifest/filesystem scanner of              *)
(* sanity/scan.py and the per-file checks of sanity/checks.py.             *)
(*                                                                         *)
(* The engine is stateless: every operation is a call on a filesystem      *)
(* snapshot.  The state is the last call (its arguments and the snapshot   *)
(* it ran on) and what it returned or raised.  While one of the three pool *)
(* runs of checks.py is under way, pool holds its tasks: which are queued, *)
(* running, done or merged, what the workers returned and what the calling *)
(* thread has merged so far.                                               *)
(***************************************************************************)
EXTENDS Integers, Sequences, FiniteSets, TLC

VARIABLES call, ret, pool

vars == <<call, ret, pool>>

(***************************************************************************)
(* Bounds of the model.                                                    *)
(***************************************************************************)
MaxRows == 2
MaxCols == 3
MaxPaths == 3
MaxCopies == 5
MaxStats == 2
MaxTasks == 3
MaxWorkers == 2

(***************************************************************************)
(* Generic helpers.                                                        *)
(***************************************************************************)
Range(s) == {s[i] : i \in DOMAIN s}

Min2(a, b) == IF a < b THEN a ELSE b

SeqsUpTo(S, n) == UNION {[1..k -> S] : k \in 0..n}

NoRepeat(s) == \A i, j \in DOMAIN s : i # j => s[i] # s[j]

\* Python's sorted(), the stable sort: less[i, j] says that the key of s[i] is
\* below the key of s[j]; element i lands after every element that is smaller,
\* or equal and earlier
Sorted(s, less) ==
    LET pos == [i \in DOMAIN s |->
                  1 + Cardinality({j \in DOMAIN s :
                        less[j, i] \/ (~less[i, j] /\ j < i)})]
    IN  [k \in DOMAIN s |-> s[CHOOSE i \in DOMAIN s : pos[i] = k]]

(***************************************************************************)
(* Header strings are sequences of characters, so that str.lower() and     *)
(* the substring test `cand in col` are computed, not tabulated.           *)
(***************************************************************************)
LowerChar(c) ==
    CASE c = "F" -> "f"
      [] c = "C" -> "c"
      [] c = "I" -> "i"
      [] OTHER -> c

LowerText(s) == [i \in DOMAIN s |-> LowerChar(s[i])]

IsSubstring(c, s) ==
    \E i \in 0..(Len(s) - Len(c)) : SubSeq(s, i + 1, i + Len(c)) = c

h_filename == <<"f", "i", "l", "e", "n", "a", "m", "e">>
h_file == <<"f", "i", "l", "e">>
h_File == <<"F", "i", "l", "e">>
h_image == <<"i", "m", "a", "g", "e">>
h_image_path == <<"i", "m", "a", "g", "e", "_", "p", "a", "t", "h">>
h_path == <<"p", "a", "t", "h">>
h_img == <<"i", "m", "g">>
h_id == <<"i", "d">>
h_img_id == <<"i", "m", "g", "_", "i", "d">>
h_width == <<"w", "i", "d", "t", "h">>
h_notes == <<"n", "o", "t", "e", "s">>
h_label == <<"l", "a", "b", "e", "l">>
h_class == <<"c", "l", "a", "s", "s">>
h_Class == <<"C", "l", "a", "s", "s">>
h_category == <<"c", "a", "t", "e", "g", "o", "r", "y">>
h_target == <<"t", "a", "r", "g", "e", "t">>
h_y == <<"y">>

FILENAME_CANDIDATES ==
    <<h_filename, h_file, h_image, h_image_path, h_path, h_img, h_id>>

LABEL_CANDIDATES == <<h_label, h_class, h_category, h_target, h_y>>

\* Python's None / "" for a column name (both are falsy in the code)
NoneCol == <<>>

\* the header names a manifest of the model may carry
Headers ==
    {h_filename, h_file, h_File, h_image_path, h_img_id, h_width, h_notes,
     h_label, h_Class}

\* list.index(x): the first position of x in s (x is in s)
IndexOf(s, x) == CHOOSE i \in DOMAIN s : s[i] = x /\ \A j \in 1..(i - 1) : s[j] # x

\* the exact pass, candidates cands[k..]: one entry per candidate present in
\* lowered, the header at the first position where it is found
RECURSIVE ExactMatches(_, _, _, _)
ExactMatches(columns, lowered, cands, k) ==
    IF k > Len(cands) THEN <<>>
    ELSE (IF cands[k] \in Range(lowered)
            THEN <<columns[IndexOf(lowered, cands[k])]>>
            ELSE <<>>)
         \o ExactMatches(columns, lowered, cands, k + 1)

\* the partial pass, headers i..: every header that contains some candidate
RECURSIVE PartialMatches(_, _, _, _)
PartialMatches(columns, lowered, cands, i) ==
    IF i > Len(columns) THEN <<>>
    ELSE (IF \E k \in DOMAIN cands : IsSubstring(cands[k], lowered[i])
            THEN <<columns[i]>>
            ELSE <<>>)
         \o PartialMatches(columns, lowered, cands, i + 1)

\* choose_column done wrong: with no match at either level the first header is
\* taken
choose_column_FirstHeader(columns, candidates) ==
    LET lowered == [i \in DOMAIN columns |-> LowerText(columns[i])]
        matches == ExactMatches(columns, lowered, candidates, 1)
        partials == PartialMatches(columns, lowered, candidates, 1)
    IN  IF matches # <<>> THEN [col |-> matches[1], matches |-> matches]
        ELSE IF partials # <<>> THEN [col |-> partials[1], matches |-> partials]
        ELSE IF columns # <<>> THEN [col |-> columns[1], matches |-> <<columns[1]>>]
        ELSE [col |-> NoneCol, matches |-> <<>>]

\* _choose_column: [col, matches]
choose_column(columns, candidates) ==
    LET lowered == [i \in DOMAIN columns |-> LowerText(columns[i])]
        matches == ExactMatches(columns, lowered, candidates, 1)
        partials == PartialMatches(columns, lowered, candidates, 1)
    IN  IF matches # <<>> THEN [col |-> matches[1], matches |-> matches]
        ELSE IF partials # <<>> THEN [col |-> partials[1], matches |-> partials]
        ELSE [col |-> NoneCol, matches |-> <<>>]

\* the warning texts of scan_mode_b, by kind and the value formatted into them
FilenameWarning(col) == [kind |-> "filename_cols", using |-> col]
LabelWarning(col) == [kind |-> "label_cols", using |-> col]

\* scan_mode_b, the column section: the override or the detected column, and
\* the ambiguity warnings in the order the code appends them
ResolveColumns(columns, filename_col_override, label_col_override) ==
    LET fc == choose_column(columns, FILENAME_CANDIDATES)
        lc == choose_column(columns, LABEL_CANDIDATES)
        fdetect == filename_col_override = NoneCol
        ldetect == label_col_override = NoneCol
    IN  [filename_col |-> IF fdetect THEN fc.col ELSE filename_col_override,
         label_col |-> IF ldetect THEN lc.col ELSE label_col_override,
         warnings |->
            (IF fdetect /\ Len(fc.matches) > 1
                THEN <<FilenameWarning(fc.col)>> ELSE <<>>)
            \o (IF ldetect /\ Len(lc.matches) > 1
                THEN <<LabelWarning(lc.col)>> ELSE <<>>)]

(***************************************************************************)
(* Strings of the manifest cells and paths.  A string is kept parsed the   *)
(* way pathlib reads it: surrounding blanks, a leading "/", the directory  *)
(* segments, and the final name split into stem and suffix.  null marks    *)
(* pandas' NaN / Python's None.                                            *)
(***************************************************************************)
Str(abs, segs, stem, ext) ==
    [null |-> FALSE, pad |-> FALSE, abs |-> abs, segs |-> segs,
     stem |-> stem, ext |-> ext]

None == [null |-> TRUE, pad |-> FALSE, abs |-> FALSE, segs |-> <<>>,
         stem |-> "", ext |-> ""]

Padded(s) == [s EXCEPT !.pad = TRUE]

Word(w) == Str(FALSE, <<>>, w, "")

EmptyText == Word("")
NanText == Word("nan")
EMPTY_REFERENCE == Word("<empty>")

\* str.strip()
strip(s) == [s EXCEPT !.pad = FALSE]

LowerAtom(a) ==
    CASE a = ".JPG" -> ".jpg"
      [] a = ".PNG" -> ".png"
      [] a = "B" -> "b"
      [] a = "Cat" -> "cat"
      [] a = "NaN" -> "nan"
      [] OTHER -> a

\* str.lower()
lower(s) ==
    [s EXCEPT !.segs = [i \in DOMAIN s.segs |-> LowerAtom(s.segs[i])],
              !.stem = LowerAtom(s.stem),
              !.ext = LowerAtom(s.ext)]

\* code-point order of the atoms the strings are built from; no atom is a proper
\* prefix of another one that can stand at the same place of a path, so
\* comparing atom by atom is comparing the strings
OrdTable ==
    <<"", ".JPG", ".jpg", ".png", ".txt", "B", "a", "b", "d", "images",
      "other", "readme", "sub", "w", "x">>

OrdOf == [a \in Range(OrdTable) |-> CHOOSE i \in DOMAIN OrdTable : OrdTable[i] = a]

Ord(a) == OrdOf[a]

SeqLess(a, b) ==
    \E k \in 1..(Min2(Len(a), Len(b)) + 1) :
        /\ \A j \in 1..(k - 1) : a[j] = b[j]
        /\ \/ k > Len(a) /\ k <= Len(b)
           \/ k <= Len(a) /\ k <= Len(b) /\ a[k] < b[k]

\* the atoms of a path string, in order, by their rank
PathKey(p) ==
    <<IF p.abs THEN 0 ELSE 1>> \o [i \in DOMAIN p.segs |-> Ord(p.segs[i])]
        \o <<Ord(p.stem), Ord(p.ext)>>

\* str < str on two paths, computed
PathLess(p, q) ==
    LET a == PathKey(p)
        b == PathKey(q)
    IN  SeqLess(a, b)

(***************************************************************************)
(* The filesystem snapshot: the regular files, by absolute location.       *)
(***************************************************************************)
CWD == <<"w">>

IsPrefix(a, b) == Len(a) <= Len(b) /\ SubSeq(b, 1, Len(a)) = a

Dir(abs, segs) == [abs |-> abs, segs |-> segs]

\* os.path.join(dataset_root, images_dir) / Path(a) / b for a directory
JoinDir(d, name) == Dir(d.abs, Append(d.segs, name))

\* Path(d) / raw, raw relative
Join(d, raw) == [raw EXCEPT !.abs = d.abs, !.segs = d.segs \o raw.segs]

AbsSegs(abs, segs) == IF abs THEN segs ELSE CWD \o segs

\* the file a path string names
Loc(p) == [segs |-> AbsSegs(p.abs, p.segs), stem |-> p.stem, ext |-> p.ext]

File(segs, stem, ext) == [segs |-> segs, stem |-> stem, ext |-> ext]

F_a_jpg == File(<<"w", "d", "images">>, "a", ".jpg")
F_a_png == File(<<"w", "d", "images">>, "a", ".png")
F_B_JPG == File(<<"w", "d", "images", "sub">>, "B", ".JPG")
F_x_jpg == File(<<"w", "d", "other">>, "x", ".jpg")
F_readme == File(<<"w", "d", "images">>, "readme", ".txt")

AllFiles == {F_a_jpg, F_a_png, F_B_JPG, F_x_jpg, F_readme}

\* the two spellings of a file: from "/" and from the working directory
Spellings(f) ==
    {Str(TRUE, f.segs, f.stem, f.ext)}
        \cup (IF IsPrefix(CWD, f.segs)
                THEN {Str(FALSE, SubSeq(f.segs, Len(CWD) + 1, Len(f.segs)), f.stem, f.ext)}
                ELSE {})

PathUniverse == UNION {Spellings(f) : f \in AllFiles}

\* PathLess tabulated over the paths of the model: how many of them sort before p
\* (TLC evaluates a constant once)
PathRank == [p \in PathUniverse |-> Cardinality({q \in PathUniverse : PathLess(q, p)})]

\* str < str on two paths
StrLess(p, q) ==
    IF p \in PathUniverse /\ q \in PathUniverse THEN PathRank[p] < PathRank[q]
    ELSE PathLess(p, q)

SortedPaths(s) == Sorted(s, [i \in DOMAIN s, j \in DOMAIN s |-> StrLess(s[i], s[j])])

\* sorted(S) of a set of paths
SortedPathSet(S) ==
    LET before == [x \in S |-> Cardinality({y \in S : StrLess(y, x)})]
    IN  [k \in 1..Cardinality(S) |-> CHOOSE x \in S : before[x] = k - 1]

\* Path.exists(), when stat() answers: the path names a file of the snapshot
exists(fs, p) == Loc(p) \in fs

\* a file name longer than the 255 bytes a name may have: stat() on a path that
\* holds it fails with ENAMETOOLONG, not with "no such file"
LONG_NAME == "long"

\* stat() on the path fails with an OSError that is not "no such file"
StatFails(p) == p.stem = LONG_NAME

\* Path.exists() on such a path re-raises the OSError (pathlib before Python
\* 3.12) or answers False (pathlib from 3.12 on)
StatOutcomes == {"raises", "false"}

\* _normalize_exts, as the set the callers make of it
normalize_exts(allowed_exts) == {LowerAtom(allowed_exts[i]) : i \in DOMAIN allowed_exts}

\* list_images: the files below images_dir with an allowed suffix, each spelled
\* the way rglob spells it (images_dir followed by the rest), sorted
list_images(fs, images_dir, allowed_exts) ==
    LET exts == normalize_exts(allowed_exts)
        rootSegs == AbsSegs(images_dir.abs, images_dir.segs)
        under == {f \in fs : IsPrefix(rootSegs, f.segs) /\ LowerAtom(f.ext) \in exts}
        spell(f) == Str(images_dir.abs,
                        images_dir.segs
                            \o SubSeq(f.segs, Len(rootSegs) + 1, Len(f.segs)),
                        f.stem, f.ext)
    IN  SortedPathSet({spell(f) : f \in under})

\* _resolve_relative
resolve_relative(root, images_dir, value) ==
    IF value.abs THEN value
    ELSE IF value.segs # <<>> THEN Join(root, value)
    ELSE Join(images_dir, value)

\* normalize_label done wrong: "nan" is recognised in lower case only
normalize_label_ExactNan(value, enabled) ==
    IF value.null THEN None
    ELSE LET text == strip(value)
         IN  IF text = EmptyText \/ text = NanText THEN None
             ELSE IF enabled THEN lower(text)
             ELSE text

\* normalize_label
normalize_label(value, enabled) ==
    IF value.null THEN None
    ELSE LET text == strip(value)
         IN  IF text = EmptyText \/ lower(text) = NanText THEN None
             ELSE IF enabled THEN lower(text)
             ELSE text

\* _extract_ext: the lowered suffix, "" standing for None
extract_ext(value) == LowerAtom(value.ext)

(***************************************************************************)
(* The configurations and snapshots the scans of the model run on.         *)
(***************************************************************************)
DATASET_ROOTS == {Dir(FALSE, <<"d">>), Dir(TRUE, <<"w", "d">>)}
IMAGES_DIR == "images"
ALLOWED_EXTS == <<".jpg", ".PNG">>

Snapshots ==
    {{}, {F_a_jpg}, {F_a_png}, {F_a_jpg, F_a_png}, {F_a_jpg, F_x_jpg},
     {F_a_jpg, F_readme}, {F_a_png, F_B_JPG, F_x_jpg}, AllFiles}

\* list_images and the stem index, tabulated over the snapshots and roots of the
\* model (TLC evaluates a constant once)
ListingTable ==
    [fs \in Snapshots, root \in DATASET_ROOTS |->
        list_images(fs, JoinDir(root, IMAGES_DIR), ALLOWED_EXTS)]

(***************************************************************************)
(* scan_mode_b.  df is the manifest as read: its header row and its rows,  *)
(* a row being one cell per header.                                        *)
(***************************************************************************)
ImageEntry(path, rel_path, label) ==
    [path |-> path, rel_path |-> rel_path, label |-> label]

MissingImageEntry(row_index, reference) ==
    [row_index |-> row_index, reference |-> reference]

StemWarning(value, using) == [kind |-> "stem", id |-> value, using |-> using]

\* row[col]
Cell(df, row, col) == row[IndexOf(df.columns, col)]

\* dict[key] = dict.get(key, 0) + 1
Incremented(counts, key) ==
    IF key \in DOMAIN counts THEN [counts EXCEPT ![key] = @ + 1]
    ELSE counts @@ (key :> 1)

\* str(resolved).startswith(images_root)
StartsWith(p, d) == p.abs = d.abs /\ IsPrefix(d.segs, p.segs)

\* os.path.relpath(p, d), p below d
relpath(p, d) == Str(FALSE, SubSeq(p.segs, Len(d.segs) + 1, Len(p.segs)), p.stem, p.ext)

\* MissRow done wrong: the row is counted but no entry is recorded
MissRow_NotRecorded(acc, row_index, reference, label) ==
    [acc EXCEPT !.missing_label_count = @ + (IF label = None THEN 1 ELSE 0)]

\* MissRow done wrong: the label of a row that misses is not counted
MissRow_LabelNotCounted(acc, row_index, reference, label) ==
    [acc EXCEPT !.missing_images = Append(@, MissingImageEntry(row_index, reference))]

\* the four places where a row is recorded as missing: the entry, the label
\* accounting, continue
MissRow(acc, row_index, reference, label) ==
    [acc EXCEPT !.missing_images = Append(@, MissingImageEntry(row_index, reference)),
                !.missing_label_count = @ + (IF label = None THEN 1 ELSE 0)]

\* ResolvedRow done wrong: the path is not added to the referenced set
ResolvedRow_NotReferenced(acc, resolved, label, images_root) ==
    [acc EXCEPT !.missing_label_count = @ + (IF label = None THEN 1 ELSE 0),
                !.images = Append(@, ImageEntry(resolved, resolved, label))]

\* the row that resolved: the label accounting, the entry, the referenced set
ResolvedRow(acc, resolved, label, images_root) ==
    LET rel == IF StartsWith(resolved, images_root)
                 THEN relpath(resolved, images_root) ELSE resolved
    IN  [acc EXCEPT !.missing_label_count = @ + (IF label = None THEN 1 ELSE 0),
                    !.images = Append(@, ImageEntry(resolved, rel, label)),
                    !.referenced = @ \cup {resolved}]

\* one iteration of the row loop; i is the 1-based position of the row
ProcessRow(acc, i, ctx) ==
    LET row == ctx.df.rows[i]
        row_index == i - 1
        raw_value == Cell(ctx.df, row, ctx.filename_col)
        label == IF ctx.label_col # NoneCol
                   THEN normalize_label(Cell(ctx.df, row, ctx.label_col),
                                        ctx.normalize_labels)
                   ELSE None
        value == strip(raw_value)
    IN  IF raw_value.null THEN MissRow(acc, row_index, EMPTY_REFERENCE, label)
        ELSE IF value = EmptyText \/ lower(value) = NanText
            THEN MissRow(acc, row_index, EMPTY_REFERENCE, label)
        ELSE
        LET ext == extract_ext(value)
            counted == IF ext # ""
                         THEN [acc EXCEPT !.csv_ext_counts = Incremented(@, ext)]
                         ELSE [acc EXCEPT !.csv_no_ext_count = @ + 1]
            candidate == resolve_relative(ctx.dataset_root, ctx.images_root, value)
            byStem == candidate.ext = "" /\ ctx.ids_without_ext
            stem == LowerAtom(candidate.stem)
            matches == IF stem \in DOMAIN ctx.stem_map THEN ctx.stem_map[stem] ELSE <<>>
            warned == IF byStem /\ Len(matches) > 1
                        THEN [counted EXCEPT
                                !.warnings = Append(@, StemWarning(value, matches[1]))]
                        ELSE counted
            resolved == IF byStem
                          THEN (IF matches # <<>> THEN matches[1] ELSE None)
                          ELSE candidate
        IN  IF resolved = None THEN MissRow(warned, row_index, value, label)
            ELSE IF LowerAtom(resolved.ext) \notin ctx.allowed
                THEN MissRow(warned, row_index, value, label)
            ELSE IF StatFails(resolved) /\ ctx.stat_error = "raises"
                THEN [warned EXCEPT !.raised = "OSError"]
            ELSE IF ~exists(ctx.fs, resolved)
                THEN MissRow(warned, row_index, value, label)
            ELSE ResolvedRow(warned, resolved, label, ctx.images_root)

RECURSIVE RowLoop(_, _, _)
RowLoop(acc, i, ctx) ==
    IF i > Len(ctx.df.rows) \/ acc.raised # "" THEN acc
    ELSE RowLoop(ProcessRow(acc, i, ctx), i + 1, ctx)

\* StemMap done wrong: the paths of a stem in descending order
StemMap_Descending(all_images, ids_without_ext) ==
    IF ~ids_without_ext THEN <<>>
    ELSE [st \in {LowerAtom(all_images[i].stem) : i \in DOMAIN all_images} |->
            LET up == SortedPaths(SelectSeq(all_images, LAMBDA p : LowerAtom(p.stem) = st))
            IN  [k \in DOMAIN up |-> up[Len(up) + 1 - k]]]

\* stem_map: lowercase stem -> sorted list of the listed paths with that stem
StemMap(all_images, ids_without_ext) ==
    IF ~ids_without_ext THEN <<>>
    ELSE [st \in {LowerAtom(all_images[i].stem) : i \in DOMAIN all_images} |->
            SortedPaths(SelectSeq(all_images, LAMBDA p : LowerAtom(p.stem) = st))]

\* ImageLess done wrong: descending
ImageLess_Descending(a, b) == StrLess(b.path, a.path)

\* the sort key item.path
ImageLess(a, b) == StrLess(a.path, b.path)

\* OrphanImages done wrong: the filter inverted
OrphanImages_Inverted(all_images, referenced) ==
    SortedPaths(SelectSeq(all_images, LAMBDA p : p \in referenced))

\* orphan_images: the listed paths that are not in the referenced set, sorted
OrphanImages(all_images, referenced) ==
    SortedPaths(SelectSeq(all_images, LAMBDA p : p \notin referenced))

\* the sort key (entry.row_index, entry.reference); a row gives at most one entry,
\* so the row index decides
MissingLess(a, b) == a.row_index < b.row_index

Raised(error) == [status |-> "raised", error |-> error]

Returned(value) == [status |-> "ok", value |-> value]

scan_mode_b(fs, stat_error, dataset_root, images_dir, allowed_exts, df, filename_col_override, label_col_override, ids_without_ext, normalize_labels) ==
    LET cols == ResolveColumns(df.columns, filename_col_override, label_col_override)
        images_root == JoinDir(dataset_root, images_dir)
        all_images == IF images_dir = IMAGES_DIR /\ allowed_exts = ALLOWED_EXTS
                        THEN ListingTable[fs, dataset_root]
                        ELSE list_images(fs, images_root, allowed_exts)
        ctx == [fs |-> fs, stat_error |-> stat_error, df |-> df, dataset_root |-> dataset_root,
                images_root |-> images_root,
                allowed |-> normalize_exts(allowed_exts),
                filename_col |-> cols.filename_col, label_col |-> cols.label_col,
                ids_without_ext |-> ids_without_ext,
                normalize_labels |-> normalize_labels,
                stem_map |-> StemMap(all_images, ids_without_ext)]
        acc0 == [images |-> <<>>, missing_images |-> <<>>, referenced |-> {},
                 csv_ext_counts |-> <<>>, csv_no_ext_count |-> 0,
                 missing_label_count |-> 0, warnings |-> cols.warnings,
                 raised |-> ""]
        acc == RowLoop(acc0, 1, ctx)
        images == Sorted(acc.images, [i \in DOMAIN acc.images, j \in DOMAIN acc.images |->
                                          ImageLess(acc.images[i], acc.images[j])])
    IN  IF cols.filename_col = NoneCol THEN Raised("ValueError")
        ELSE IF df.rows # <<>>
                /\ (cols.filename_col \notin Range(df.columns)
                    \/ (cols.label_col # NoneCol
                        /\ cols.label_col \notin Range(df.columns)))
            THEN Raised("KeyError")
        ELSE IF acc.raised # "" THEN Raised(acc.raised)
        ELSE Returned(
            [images |-> images,
             missing_images |-> Sorted(acc.missing_images,
                    [i \in DOMAIN acc.missing_images, j \in DOMAIN acc.missing_images |->
                       MissingLess(acc.missing_images[i], acc.missing_images[j])]),
             orphan_images |-> OrphanImages(all_images, acc.referenced),
             csv_warnings |-> acc.warnings,
             filename_col |-> cols.filename_col,
             label_col |-> cols.label_col,
             missing_label_count |-> acc.missing_label_count,
             csv_row_count |-> Len(df.rows),
             resolved_images |-> Len(images),
             total_images_scanned |-> Len(all_images),
             csv_ext_counts |-> acc.csv_ext_counts,
             csv_no_ext_count |-> acc.csv_no_ext_count])

(***************************************************************************)
(* scan_mode_a: the listing alone, the label inferred from the folder.     *)
(***************************************************************************)
\* InferredLabel done wrong: a file directly in the images root is labelled by
\* its own name
InferredLabel_FileName(rel) ==
    IF Len(rel.segs) > 0 THEN Word(rel.segs[1]) ELSE Word(rel.stem)

\* parts = rel.split(os.sep); parts[0] if len(parts) > 1, else no label
InferredLabel(rel) ==
    IF Len(rel.segs) > 0 THEN Word(rel.segs[1]) ELSE None

scan_mode_a(fs, dataset_root, images_dir, allowed_exts, infer_classes) ==
    LET images_root == JoinDir(dataset_root, images_dir)
        image_paths == list_images(fs, images_root, allowed_exts)
        rel(i) == relpath(image_paths[i], images_root)
        label(i) == IF infer_classes THEN InferredLabel(rel(i)) ELSE None
        images == [i \in DOMAIN image_paths |->
                      ImageEntry(image_paths[i], rel(i), label(i))]
    IN  Returned(
            [images |-> images,
             missing_images |-> <<>>,
             orphan_images |-> <<>>,
             csv_warnings |-> <<>>,
             filename_col |-> NoneCol,
             label_col |-> NoneCol,
             missing_label_count |->
                Cardinality({i \in DOMAIN image_paths :
                                infer_classes /\ label(i) = None}),
             csv_row_count |-> 0,
             resolved_images |-> Len(images),
             total_images_scanned |-> Len(image_paths),
             csv_ext_counts |-> <<>>,
             csv_no_ext_count |-> 0])

(***************************************************************************)
(* The per-file checks of checks.py.  What a check sees of a file: whether *)
(* it can be opened and read, its bytes (a sequence of 64 KiB blocks),     *)
(* what Image.verify() does on them, the pixels they decode to, and the    *)
(* size and mode their header gives.                                       *)
(***************************************************************************)
NoPixels == "none"
VerifyOk == "ok"

Content(bytes, verify, pixels, width, height, mode) ==
    [readable |-> TRUE, bytes |-> bytes, verify |-> verify, pixels |-> pixels,
     width |-> width, height |-> height, mode |-> mode]

\* a picture of three blocks
K_photo == Content(<<1, 1, 1>>, VerifyOk, "photo", 500, 500, "RGB")
\* the same picture with a changed middle block: other bytes, same first and
\* last 64 KiB, and pixels that look the same
K_retouched == Content(<<1, 2, 1>>, VerifyOk, "photo2", 500, 500, "RGB")
\* bytes no decoder accepts; the exception carries a message
K_garbage == Content(<<3>>, "cannot identify image file", NoPixels, 0, 0, "")
\* bytes whose decoding fails with an exception whose str() is ""
K_silent == Content(<<4>>, "", NoPixels, 0, 0, "")
\* a file that cannot be opened (removed, no permission)
Unreadable ==
    [readable |-> FALSE, bytes |-> <<>>, verify |-> "[Errno 13] Permission denied",
     pixels |-> NoPixels, width |-> 0, height |-> 0, mode |-> ""]

FileStates == {K_photo, K_retouched, K_garbage, K_silent, Unreadable}

Decodes(f) == f.readable /\ f.pixels # NoPixels

\* hashlib.sha256(data).hexdigest(): no two inputs of the model share a digest;
\* the digest is kept as the number its fixed-width hex string writes
RECURSIVE Sha256(_)
Sha256(data) == IF data = <<>> THEN 1 ELSE Sha256(Tail(data)) * 8 + Head(data)

Hex(n) == [error |-> FALSE, hex |-> n]
ErrorFingerprint(n) == [error |-> TRUE, hex |-> n]

\* the bytes of a path string, for hashing: one number per path
PathBytes(p) == <<PathRank[p] + 1>>

PythonError(type) == [raised |-> TRUE, error |-> type]
Value(v) == [raised |-> FALSE, value |-> v]

\* _verify_image: None (VerifyOk) or str(exc)
verify_image(f) == f.verify

\* _hash_sha256: open() or read() failing raises OSError out of the function
hash_sha256(path, f) ==
    IF ~f.readable THEN PythonError("OSError")
    ELSE Value(Hex(Sha256(f.bytes)))

\* _hash_quick: size, the first block, and the last block when size > 128 KiB
hash_quick(path, f) ==
    IF ~f.readable THEN PythonError("OSError")
    ELSE LET size == Len(f.bytes)
             first == SubSeq(f.bytes, 1, 1)
             last == IF size > 2 THEN SubSeq(f.bytes, size, size) ELSE <<>>
         IN  Value(Hex(Sha256(<<size>> \o first \o last)))

\* the 64 difference bits of a decoded picture, as the number "%016x" writes
DHash(pixels) ==
    CASE pixels = "photo" -> 5
      [] pixels = "photo2" -> 5
      [] OTHER -> 9

\* hash_phash done wrong: the error fingerprint does not depend on the path
hash_phash_ConstantError(path, f) ==
    IF Decodes(f) THEN Value(Hex(DHash(f.pixels)))
    ELSE Value(ErrorFingerprint(Sha256(<<>>)))

\* _hash_phash: any exception gives "error-" + sha256(path)
hash_phash(path, f) ==
    IF Decodes(f) THEN Value(Hex(DHash(f.pixels)))
    ELSE Value(ErrorFingerprint(Sha256(PathBytes(path))))

HASH_METHODS == {"sha256", "quick", "phash"}

hash_fn(method, path, f) ==
    CASE method = "sha256" -> hash_sha256(path, f)
      [] method = "quick" -> hash_quick(path, f)
      [] OTHER -> hash_phash(path, f)

\* find_corrupted: the (path, error) pairs of the paths whose error is truthy,
\* in the order of paths
RECURSIVE CorruptedFrom(_, _, _)
CorruptedFrom(paths, files, i) ==
    IF i > Len(paths) THEN <<>>
    ELSE LET error == verify_image(files[paths[i]])
         IN  (IF error # VerifyOk /\ error # ""
                THEN <<[path |-> paths[i], error |-> error]>> ELSE <<>>)
             \o CorruptedFrom(paths, files, i + 1)

find_corrupted(paths, files) == Returned(CorruptedFrom(paths, files, 1))

DuplicateGroup(hash_value, paths) == [hash_value |-> hash_value, paths |-> paths]

\* the keys of the hashes dict, in insertion order
RECURSIVE DigestOrder(_, _)
DigestOrder(digests, i) ==
    IF i > Len(digests) THEN <<>>
    ELSE (IF \E j \in 1..(i - 1) : digests[j] = digests[i]
            THEN <<>> ELSE <<digests[i]>>)
         \o DigestOrder(digests, i + 1)

\* hash_value < hash_value for two hex strings of one width
FingerprintLess(a, b) == a.hex < b.hex

\* GroupLess done wrong: the size alone
GroupLess_SizeOnly(g, h) == Len(g.paths) > Len(h.paths)

\* the sort key (-len(group.paths), group.hash_value)
GroupLess(g, h) ==
    \/ Len(g.paths) > Len(h.paths)
    \/ Len(g.paths) = Len(h.paths) /\ FingerprintLess(g.hash_value, h.hash_value)

\* IsDuplicated done wrong: a fingerprint with a single path makes a group
IsDuplicated_Singletons(items) == Len(items) >= 1

\* len(items) > 1
IsDuplicated(items) == Len(items) > 1

find_duplicates(paths, method, files) ==
    IF paths = <<>> THEN Returned(<<>>)
    ELSE IF method \notin HASH_METHODS THEN Raised("ValueError")
    ELSE
    LET results == [i \in DOMAIN paths |-> hash_fn(method, paths[i], files[paths[i]])]
        digests == [i \in DOMAIN paths |-> results[i].value]
        keys == DigestOrder(digests, 1)
        items(d) == SelectSeq(paths, LAMBDA p :
                        hash_fn(method, p, files[p]).value = d)
        all == [k \in DOMAIN keys |-> DuplicateGroup(keys[k], SortedPaths(items(keys[k])))]
        groups == SelectSeq(all, LAMBDA g : IsDuplicated(g.paths))
    IN  IF \E i \in DOMAIN paths : results[i].raised THEN Raised("OSError")
        ELSE Returned(Sorted(groups, [i \in DOMAIN groups, j \in DOMAIN groups |->
                                       GroupLess(groups[i], groups[j])]))

ImageStat(path, width, height, mode) ==
    [path |-> path, width |-> width, height |-> height, mode |-> mode]

\* _stats_for_path: Image.open reads the header only; any exception gives None
HasStats(f) == f.readable /\ f.mode # ""

\* collect_image_details: one ImageStat per path that yields one, in the order
\* of paths
RECURSIVE DetailsFrom(_, _, _)
DetailsFrom(paths, files, i) ==
    IF i > Len(paths) THEN <<>>
    ELSE LET f == files[paths[i]]
         IN  (IF HasStats(f)
                THEN <<ImageStat(paths[i], f.width, f.height, f.mode)>> ELSE <<>>)
             \o DetailsFrom(paths, files, i + 1)

collect_image_details(paths, files) == Returned(DetailsFrom(paths, files, 1))

(***************************************************************************)
(* The dataset-level signals of checks.py.  A quotient of two integers is  *)
(* compared with a threshold as the exact fraction: for counts and sizes   *)
(* below 2^50 the correctly rounded float quotient is on the same side of  *)
(* the float threshold, and equal to it when the fraction is the decimal.  *)
(***************************************************************************)
\* IMBALANCE_THRESHOLD = 0.1
IMBALANCE_THRESHOLD == [num |-> 1, den |-> 10]

\* a / b < t, for b > 0
QuotientBelow(a, b, t) == a * t.den < b * t.num

\* a label histogram: absent (None), or the count of every label present
NoHistogram == [absent |-> TRUE, counts |-> <<>>]
Histogram(counts) == [absent |-> FALSE, counts |-> counts]

\* check_imbalance done wrong: a quotient equal to the threshold is flagged
check_imbalance_AtMost(h) ==
    IF h.absent \/ Cardinality(DOMAIN h.counts) < 2 THEN FALSE
    ELSE LET values == {h.counts[l] : l \in DOMAIN h.counts}
             min_count == CHOOSE v \in values : \A w \in values : v <= w
             max_count == CHOOSE v \in values : \A w \in values : v >= w
         IN  IF max_count = 0 THEN FALSE
             ELSE ~QuotientBelow(max_count * IMBALANCE_THRESHOLD.num,
                                 min_count * IMBALANCE_THRESHOLD.den,
                                 [num |-> 1, den |-> 1])

\* check_imbalance: `not counts` holds for None and for the empty dict
check_imbalance(h) ==
    IF h.absent \/ Cardinality(DOMAIN h.counts) < 2 THEN FALSE
    ELSE LET values == {h.counts[l] : l \in DOMAIN h.counts}
             min_count == CHOOSE v \in values : \A w \in values : v <= w
             max_count == CHOOSE v \in values : \A w \in values : v >= w
         IN  IF max_count = 0 THEN FALSE
             ELSE QuotientBelow(min_count, max_count, IMBALANCE_THRESHOLD)

SMALL_RES_THRESHOLD == 64
\* ASPECT_OUTLIER_THRESHOLD = 3.0
ASPECT_OUTLIER_THRESHOLD == [num |-> 3, den |-> 1]
\* MODE_VARIANCE_THRESHOLD = 0.6
MODE_VARIANCE_THRESHOLD == [num |-> 6, den |-> 10]
\* the [:10] of the example lists
EXAMPLE_LIMIT == 10

\* a / b > t, for b > 0
QuotientAbove(a, b, t) == a * t.den > b * t.num

\* s[:n]
Take(s, n) == SubSeq(s, 1, Min2(n, Len(s)))

Max2(a, b) == IF a > b THEN a ELSE b

\* max(width / height, height / width) of an image with no side 0, as the
\* fraction longer side / shorter side
AspectRatio(item) ==
    [num |-> Max2(item.width, item.height), den |-> Min2(item.width, item.height)]

\* the sort key (-ratio, path) of the outliers
OutlierLess(a, b) ==
    LET ra == AspectRatio(a)
        rb == AspectRatio(b)
    IN  \/ ra.num * rb.den > rb.num * ra.den
        \/ ra.num * rb.den = rb.num * ra.den /\ a.path < b.path

\* mode_counts: how many images of each mode present
ModeCounts(details) ==
    [md \in {details[i].mode : i \in DOMAIN details} |->
        Cardinality({i \in DOMAIN details : details[i].mode = md})]

\* ModeVarianceWarning done wrong: two modes are enough
ModeVarianceWarning_TwoModes(mode_counts, total) ==
    LET top == CHOOSE v \in Range(mode_counts) : \A w \in Range(mode_counts) : v >= w
    IN  /\ Cardinality(DOMAIN mode_counts) >= 2
        /\ QuotientBelow(top, total, MODE_VARIANCE_THRESHOLD)

\* len(mode_counts) >= 3 and top_mode_share < MODE_VARIANCE_THRESHOLD
ModeVarianceWarning(mode_counts, total) ==
    LET top == CHOOSE v \in Range(mode_counts) : \A w \in Range(mode_counts) : v >= w
    IN  /\ Cardinality(DOMAIN mode_counts) >= 3
        /\ QuotientBelow(top, total, MODE_VARIANCE_THRESHOLD)

NoHygiene == [absent |-> TRUE]

\* analyze_hygiene; a path is kept as the number its zero-padded name writes,
\* so that the order of the numbers is the order of the strings
analyze_hygiene(details) ==
    IF details = <<>> THEN Returned(NoHygiene)
    ELSE IF \E i \in DOMAIN details : details[i].width = 0 \/ details[i].height = 0
        THEN Raised("ZeroDivisionError")
    ELSE
    LET small == SelectSeq(details, LAMBDA item :
                    Min2(item.width, item.height) < SMALL_RES_THRESHOLD)
        small_res_paths == [i \in DOMAIN small |-> small[i].path]
        aspect_outliers == SelectSeq(details, LAMBDA item :
                    QuotientAbove(AspectRatio(item).num, AspectRatio(item).den,
                                  ASPECT_OUTLIER_THRESHOLD))
        sorted_outliers ==
            Sorted(aspect_outliers,
                   [i \in DOMAIN aspect_outliers, j \in DOMAIN aspect_outliers |->
                        OutlierLess(aspect_outliers[i], aspect_outliers[j])])
        first_outliers == Take(sorted_outliers, EXAMPLE_LIMIT)
        total == Len(details)
        rgba_count == Cardinality({i \in DOMAIN details : details[i].mode = "RGBA"})
    IN  Returned(
            [absent |-> FALSE,
             small_res_count |-> Len(small_res_paths),
             small_res_examples |->
                Take(Sorted(small_res_paths,
                            [i \in DOMAIN small_res_paths, j \in DOMAIN small_res_paths |->
                                small_res_paths[i] < small_res_paths[j]]),
                     EXAMPLE_LIMIT),
             aspect_outlier_count |-> Len(aspect_outliers),
             aspect_outlier_examples |->
                [i \in DOMAIN first_outliers |-> first_outliers[i].path],
             rgba_share |-> [num |-> rgba_count, den |-> total],
             mode_variance_warning |-> ModeVarianceWarning(ModeCounts(details), total)])

(***************************************************************************)
(* The pool runs of checks.py: executor.map(fn, paths) submits one task    *)
(* per path, the workers run them in any order, and the calling thread     *)
(* takes the results through zip(paths, ...) and merges them.              *)
(***************************************************************************)
NoPool == [status |-> <<>>, result |-> <<>>, acc |-> <<>>, failed |-> "", overtaken |-> FALSE]

\* None of _stats_for_path
NoStat == [absent |-> TRUE]

\* what the worker function of the run returns, or raises, on one path
WorkerResult(kind, method, path, f) ==
    CASE kind = "find_corrupted" -> Value(verify_image(f))
      [] kind = "find_duplicates" -> hash_fn(method, path, f)
      [] OTHER -> Value(IF HasStats(f)
                          THEN ImageStat(path, f.width, f.height, f.mode)
                          ELSE NoStat)

\* the body of the caller's for loop: results.append((path, error)) if error;
\* hashes.setdefault(digest, []).append(path); details.append(result) unless None
Merged(kind, acc, path, result) ==
    CASE kind = "find_corrupted" ->
            IF result # VerifyOk /\ result # ""
                THEN Append(acc, [path |-> path, error |-> result]) ELSE acc
      [] kind = "find_duplicates" ->
            IF \E k \in DOMAIN acc : acc[k].digest = result
                THEN [k \in DOMAIN acc |->
                        IF acc[k].digest = result
                            THEN [acc[k] EXCEPT !.items = Append(@, path)]
                            ELSE acc[k]]
                ELSE Append(acc, [digest |-> result, items |-> <<path>>])
      [] OTHER -> IF result = NoStat THEN acc ELSE Append(acc, result)

\* what the function returns after its loop
PoolReturn(kind, acc) ==
    IF kind # "find_duplicates" THEN acc
    ELSE LET all == [k \in DOMAIN acc |->
                        DuplicateGroup(acc[k].digest, SortedPaths(acc[k].items))]
             groups == SelectSeq(all, LAMBDA g : IsDuplicated(g.paths))
         IN  Sorted(groups, [i \in DOMAIN groups, j \in DOMAIN groups |->
                                GroupLess(groups[i], groups[j])])

Unmerged(p) == {i \in DOMAIN p.status : p.status[i] # "merged"}

\* NextToMerge done wrong: the results are taken as they complete
NextToMerge_AsCompleted(p) ==
    IF \E i \in DOMAIN p.status : p.status[i] = "done"
        THEN CHOOSE i \in DOMAIN p.status :
                /\ p.status[i] = "done"
                /\ \A j \in DOMAIN p.status : p.status[j] = "done" => j <= i
        ELSE CHOOSE i \in Unmerged(p) : \A j \in Unmerged(p) : i <= j

\* the task whose result the iterator of executor.map yields next: the first
\* in the order of paths that has not been taken
NextToMerge(p) == CHOOSE i \in Unmerged(p) : \A j \in Unmerged(p) : i <= j

(***************************************************************************)
(* The calls: each specification starts idle and makes one call.           *)
(***************************************************************************)
NoCall == [op |-> "none"]
NoRet == [status |-> "none"]

Init == call = NoCall /\ ret = NoRet /\ pool = NoPool

ColumnSeqs == {s \in SeqsUpTo(Headers, MaxCols) : NoRepeat(s)}

\* the column section of scan_mode_b on a manifest with the given header row
DetectColumns ==
    /\ call = NoCall
    /\ UNCHANGED pool
    /\ \E columns \in ColumnSeqs, fo \in {NoneCol, h_file} :
        /\ call' = [op |-> "resolve_columns", columns |-> columns,
                    filename_col_override |-> fo, label_col_override |-> NoneCol]
        /\ ret' = [status |-> "ok",
                   value |-> ResolveColumns(columns, fo, NoneCol)]

NextColumns == DetectColumns

SpecColumns == Init /\ [][NextColumns]_vars

(***************************************************************************)
(* The manifest-reconciled scan, on the manifests and snapshots below.     *)
(***************************************************************************)
\* what a cell of a filename column may hold
RefCells ==
    {None,                                          \* empty cell
     Padded(EmptyText),                             \* blanks only
     Str(FALSE, <<>>, "a", ".jpg"),                 \* a.jpg
     Padded(Str(FALSE, <<>>, "a", ".jpg")),         \* " a.jpg "
     Str(FALSE, <<>>, "a", ""),                     \* a
     Str(FALSE, <<>>, "B", ""),                     \* B
     Str(FALSE, <<"images">>, "a", ".jpg"),         \* images/a.jpg
     Str(FALSE, <<"other">>, "x", ".jpg"),          \* other/x.jpg
     Str(TRUE, <<"w", "d", "images">>, "a", ".jpg"), \* /w/d/images/a.jpg
     Str(FALSE, <<>>, "readme", ".txt")}            \* readme.txt

R_a_jpg == Str(FALSE, <<>>, "a", ".jpg")
R_a == Str(FALSE, <<>>, "a", "")
R_B == Str(FALSE, <<>>, "B", "")
R_abs_a_jpg == Str(TRUE, <<"w", "d", "images">>, "a", ".jpg")
R_other_x_jpg == Str(FALSE, <<"other">>, "x", ".jpg")
\* a reference whose file name is too long
R_long_jpg == Str(FALSE, <<>>, LONG_NAME, ".jpg")
L_Cat == Word("Cat")

\* rows of a manifest with a filename column and a label column: a resolving,
\* an extension-less, an outlying, an over-long and an empty reference with a
\* label, a resolving, an empty and an extension-less reference without one,
\* and a resolving and an outlying reference whose label cell reads " NaN " or
\* is blank
LabelledRows ==
    {<<r, L_Cat>> : r \in {R_a_jpg, R_a, R_other_x_jpg, R_long_jpg, None}}
        \cup {<<r, None>> : r \in {R_a_jpg, None, R_a}}
        \cup {<<R_a_jpg, Padded(Word("NaN"))>>, <<R_other_x_jpg, Padded(EmptyText)>>}

\* the references of the manifests with two headers alike
FewRefs == {R_a_jpg, R_a, None}

\* the manifests of the model: the header row, the override given for the
\* filename column, and the rows the manifest may hold
Layouts ==
    {[columns |-> <<h_filename, h_label>>, override |-> NoneCol,
      rows |-> LabelledRows],
     [columns |-> <<h_img_id>>, override |-> NoneCol,
      rows |-> {<<r>> : r \in RefCells}],
     [columns |-> <<h_File, h_file>>, override |-> NoneCol,
      rows |-> {<<r, None>> : r \in FewRefs}],
     [columns |-> <<h_File, h_file>>, override |-> h_file,
      rows |-> {<<None, r>> : r \in FewRefs}],
     [columns |-> <<h_notes, h_label>>, override |-> NoneCol,
      rows |-> {<<R_a_jpg, L_Cat>>}],
     [columns |-> <<h_filename, h_file, h_label, h_class>>, override |-> NoneCol,
      rows |-> {<<r, None, L_Cat, None>> : r \in {R_a, R_B, R_a_jpg, None}}],
     [columns |-> <<h_filename, h_label>>, override |-> h_path,
      rows |-> {<<R_a_jpg, L_Cat>>}]}

\* what Path.exists() may do during a scan of the manifest: the two outcomes
\* differ only when some cell holds a path on which stat() fails
StatOutcomesOn(df) ==
    IF \E i \in DOMAIN df.rows : \E c \in DOMAIN df.rows[i] : StatFails(df.rows[i][c])
        THEN StatOutcomes ELSE {"false"}

ScanModeB ==
    /\ call = NoCall
    /\ UNCHANGED pool
    /\ \E layout \in Layouts, fs \in Snapshots, dataset_root \in DATASET_ROOTS,
       ids_without_ext \in BOOLEAN :
      \E rows \in SeqsUpTo(layout.rows, MaxRows) :
        LET df == [columns |-> layout.columns, rows |-> rows]
        IN  /\ call' = [op |-> "scan_mode_b", fs |-> fs,
                        dataset_root |-> dataset_root, images_dir |-> IMAGES_DIR,
                        allowed_exts |-> ALLOWED_EXTS, df |-> df,
                        filename_col_override |-> layout.override,
                        label_col_override |-> NoneCol,
                        ids_without_ext |-> ids_without_ext,
                        normalize_labels |-> TRUE]
            /\ \E stat_error \in StatOutcomesOn(df) :
                  ret' = scan_mode_b(fs, stat_error, dataset_root, IMAGES_DIR,
                                     ALLOWED_EXTS, df, layout.override, NoneCol,
                                     ids_without_ext, TRUE)

NextScan == ScanModeB

SpecScan == Init /\ [][NextScan]_vars

(***************************************************************************)
(* The filesystem-only scan, on every snapshot of the files of the model.  *)
(***************************************************************************)
ExtLists == {ALLOWED_EXTS, <<".jpg">>, <<".png", ".JPG", ".jpg">>}

ScanModeA ==
    /\ call = NoCall
    /\ UNCHANGED pool
    /\ \E fs \in SUBSET AllFiles, dataset_root \in DATASET_ROOTS,
          allowed_exts \in ExtLists, infer_classes \in BOOLEAN :
        /\ call' = [op |-> "scan_mode_a", fs |-> fs, dataset_root |-> dataset_root,
                    images_dir |-> IMAGES_DIR, allowed_exts |-> allowed_exts,
                    infer_classes |-> infer_classes]
        /\ ret' = scan_mode_a(fs, dataset_root, IMAGES_DIR, allowed_exts,
                              infer_classes)

NextScanA == ScanModeA

SpecScanA == Init /\ [][NextScanA]_vars

(***************************************************************************)
(* The dataset-level signals, on the histograms and image records below.   *)
(***************************************************************************)
LabelNames == {"a", "b", "c"}
LabelCounts == {0, 1, 5, 9, 10, 11, 15, 100}

Histograms ==
    {NoHistogram}
        \cup {Histogram(c) : c \in UNION {[ls -> LabelCounts] : ls \in SUBSET LabelNames}}

CheckImbalance ==
    /\ call = NoCall
    /\ UNCHANGED pool
    /\ \E h \in Histograms :
        /\ call' = [op |-> "check_imbalance", counts |-> h]
        /\ ret' = Returned(check_imbalance(h))

NextImbalance == CheckImbalance

SpecImbalance == Init /\ [][NextImbalance]_vars

\* width, height and mode of the images of the model: ordinary, small, at and
\* just below the small-resolution threshold, at and beyond the aspect
\* threshold either way, and with a side of 0
Shapes ==
    {<<500, 500, "RGB">>, <<20, 20, "RGBA">>, <<63, 640, "L">>, <<64, 64, "L">>,
     <<300, 100, "P">>, <<301, 100, "RGB">>, <<100, 400, "P">>, <<0, 10, "RGB">>}

CrowdShapes == {<<500, 500, "RGB">>, <<20, 20, "RGBA">>, <<100, 400, "L">>}
CrowdSizes == {0, 1, 3, 9, 10, 11}

\* the records the details list starts with: up to MaxStats shapes under the
\* paths 1..n in any order
FirstStats ==
    UNION {{[i \in 1..n |-> ImageStat(ps[i], sh[i][1], sh[i][2], sh[i][3])] :
                sh \in [1..n -> Shapes],
                ps \in {q \in [1..n -> 1..n] : NoRepeat(q)}} : n \in 0..MaxStats}

\* m images of one shape, their paths in descending order
Crowd(m, shape) ==
    [i \in 1..m |-> ImageStat(100 + m - i, shape[1], shape[2], shape[3])]

AnalyzeHygiene ==
    /\ call = NoCall
    /\ UNCHANGED pool
    /\ \E first \in FirstStats, m \in CrowdSizes, shape \in CrowdShapes :
        LET details == first \o Crowd(m, shape)
        IN  /\ call' = [op |-> "analyze_hygiene", details |-> details]
            /\ ret' = analyze_hygiene(details)

NextHygiene == AnalyzeHygiene

SpecHygiene == Init /\ [][NextHygiene]_vars

\* the cells of a label column (every column is read with dtype=str): null,
\* blank, "nan" in either case, and texts in mixed case with and without
\* surrounding blanks, a folder part and a suffix
LabelTexts ==
    {EmptyText}
        \cup {Str(FALSE, segs, stem, ext) :
                segs \in {<<>>, <<"B">>},
                stem \in {"nan", "NaN", "Cat", "cat", "B", "b", "a"},
                ext \in {"", ".JPG", ".jpg"}}

LabelCells == {None} \cup LabelTexts \cup {Padded(s) : s \in LabelTexts}

NormalizeLabel ==
    /\ call = NoCall
    /\ UNCHANGED pool
    /\ \E value \in LabelCells, enabled \in BOOLEAN :
        /\ call' = [op |-> "normalize_label", value |-> value, enabled |-> enabled]
        /\ ret' = Returned(normalize_label(value, enabled))

\* the label that came back is normalized once more, under the same flag
NormalizeLabelAgain ==
    /\ call.op = "normalize_label"
    /\ UNCHANGED pool
    /\ call' = [op |-> "normalize_label_again", raw |-> call.value,
                value |-> ret.value, enabled |-> call.enabled]
    /\ ret' = Returned(normalize_label(ret.value, call.enabled))

NextLabels == NormalizeLabel \/ NormalizeLabelAgain

SpecLabels == Init /\ [][NextLabels]_vars

(***************************************************************************)
(* The checks, on lists of distinct paths (run_checks and the dashboard    *)
(* pass sorted({entry.path ...})) in any order, every file in any state.   *)
(***************************************************************************)
CheckPaths ==
    {Str(FALSE, <<"d", "images">>, "a", ".jpg"),
     Str(FALSE, <<"d", "images">>, "a", ".png"),
     Str(FALSE, <<"d", "images", "sub">>, "B", ".JPG"),
     Str(FALSE, <<"d", "other">>, "x", ".jpg")}

PathLists == {s \in SeqsUpTo(CheckPaths, MaxPaths) : NoRepeat(s)}

MethodNames == HASH_METHODS \cup {"md5"}

FindCorrupted ==
    /\ call = NoCall
    /\ UNCHANGED pool
    /\ \E paths \in PathLists :
         \E files \in [Range(paths) -> FileStates] :
            /\ call' = [op |-> "find_corrupted", paths |-> paths, files |-> files]
            /\ ret' = find_corrupted(paths, files)

FindDuplicates ==
    /\ call = NoCall
    /\ UNCHANGED pool
    /\ \E paths \in PathLists, method \in MethodNames :
         \E files \in [Range(paths) -> FileStates] :
            /\ call' = [op |-> "find_duplicates", paths |-> paths,
                        method |-> method, files |-> files]
            /\ ret' = find_duplicates(paths, method, files)

CollectImageDetails ==
    /\ call = NoCall
    /\ UNCHANGED pool
    /\ \E paths \in PathLists :
         \E files \in [Range(paths) -> FileStates] :
            /\ call' = [op |-> "collect_image_details", paths |-> paths,
                        files |-> files]
            /\ ret' = collect_image_details(paths, files)

\* duplicate detection over copies: up to MaxCopies paths in any order, each
\* holding the photo or the garbage
CopyPaths == CheckPaths \cup {Str(TRUE, <<"w", "d", "images">>, "a", ".jpg")}

CopyLists == {s \in SeqsUpTo(CopyPaths, MaxCopies) : NoRepeat(s)}

FindDuplicatesAmongCopies ==
    /\ call = NoCall
    /\ UNCHANGED pool
    /\ \E paths \in CopyLists, method \in HASH_METHODS :
         \E files \in [Range(paths) -> {K_photo, K_garbage}] :
            /\ call' = [op |-> "find_duplicates", paths |-> paths,
                        method |-> method, files |-> files]
            /\ ret' = find_duplicates(paths, method, files)

NextCopies == FindDuplicatesAmongCopies

SpecCopies == Init /\ [][NextCopies]_vars

NextChecks == FindCorrupted \/ FindDuplicates \/ CollectImageDetails

SpecChecks == Init /\ [][NextChecks]_vars

(***************************************************************************)
(* A pool run, step by step.  The path lists are sorted lists of distinct  *)
(* paths, as run_checks and the dashboard pass them; the hash strategy is  *)
(* a known one (an unknown one raises before the pool is made).            *)
(***************************************************************************)
POOL_RUNS == {"find_corrupted", "find_duplicates", "collect_image_details"}

PoolFileStates == {K_photo, K_garbage, Unreadable}

PoolLists ==
    {SortedPathSet(S) : S \in {T \in SUBSET CheckPaths : Cardinality(T) <= MaxTasks}}

PoolRunning == call.op \in POOL_RUNS /\ ret = NoRet

\* the call; `if not paths: return` of find_corrupted and find_duplicates, else
\* executor.map submits every task before the first result is asked for
SubmitAll ==
    /\ call = NoCall
    /\ \E kind \in POOL_RUNS, paths \in PoolLists, method \in HASH_METHODS :
        \E files \in [Range(paths) -> PoolFileStates] :
            /\ kind # "find_duplicates" => method = "sha256"
            /\ call' = [op |-> kind, paths |-> paths, method |-> method, files |-> files]
            /\ IF paths = <<>> /\ kind # "collect_image_details"
                 THEN ret' = Returned(<<>>) /\ pool' = NoPool
                 ELSE /\ ret' = NoRet
                      /\ pool' = [NoPool EXCEPT
                                    !.status = [i \in DOMAIN paths |-> "queued"],
                                    !.result = [i \in DOMAIN paths |-> NoStat]]

\* an idle worker thread takes a task from the queue
WorkerStart ==
    /\ PoolRunning
    /\ Cardinality({i \in DOMAIN pool.status : pool.status[i] = "running"}) < MaxWorkers
    /\ \E i \in DOMAIN pool.status :
        /\ pool.status[i] = "queued"
        /\ pool' = [pool EXCEPT !.status[i] = "running"]
    /\ UNCHANGED <<call, ret>>

\* a worker finishes its task and sets the result of its future
WorkerFinish ==
    /\ PoolRunning
    /\ \E i \in DOMAIN pool.status :
        /\ pool.status[i] = "running"
        /\ pool' = [pool EXCEPT
                !.status[i] = "done",
                !.result[i] = WorkerResult(call.op, call.method, call.paths[i],
                                           call.files[call.paths[i]]),
                !.overtaken = @ \/ \E j \in 1..(i - 1) :
                                        pool.status[j] \in {"queued", "running"}]
    /\ UNCHANGED <<call, ret>>

\* the calling thread takes the next result; one that raised is raised again
\* out of the iterator, which cancels the tasks no worker has taken
MergeNext ==
    /\ PoolRunning
    /\ pool.failed = ""
    /\ Unmerged(pool) # {}
    /\ LET i == NextToMerge(pool)
       IN  /\ pool.status[i] = "done"
           /\ IF pool.result[i].raised
                THEN pool' = [pool EXCEPT
                        !.failed = pool.result[i].error,
                        !.status = [j \in DOMAIN pool.status |->
                            IF j = i THEN "merged"
                            ELSE IF pool.status[j] = "queued" THEN "cancelled"
                            ELSE pool.status[j]]]
                ELSE pool' = [pool EXCEPT
                        !.status[i] = "merged",
                        !.acc = Merged(call.op, @, call.paths[i], pool.result[i].value)]
    /\ UNCHANGED <<call, ret>>

\* leaving the with block waits for the running workers; then the function
\* returns, or the exception goes on to the caller
Shutdown ==
    /\ PoolRunning
    /\ pool.failed # "" \/ Unmerged(pool) = {}
    /\ \A i \in DOMAIN pool.status : pool.status[i] # "running"
    /\ ret' = IF pool.failed # "" THEN Raised(pool.failed)
              ELSE Returned(PoolReturn(call.op, pool.acc))
    /\ UNCHANGED <<call, pool>>

NextPool == SubmitAll \/ WorkerStart \/ WorkerFinish \/ MergeNext \/ Shutdown

SpecPool == Init /\ [][NextPool]_vars

Next ==
    NextColumns \/ NextScan \/ NextScanA \/ NextChecks \/ NextCopies \/ NextImbalance
        \/ NextHygiene \/ NextLabels \/ NextPool

Spec == Init /\ [][Next]_vars

(***************************************************************************)
(* Properties of the manifest-reconciled scan (checked under SpecScan).    *)
(***************************************************************************)
ScanDone == call.op = "scan_mode_b" /\ ret.status = "ok"

ImagePaths(scan) == {scan.images[i].path : i \in DOMAIN scan.images}

\* the files listed under the images directory for the call: the files of the
\* snapshot below it with an allowed suffix, spelled from the dataset root
Listed ==
    LET root == call.dataset_root.segs \o <<call.images_dir>>
        rootSegs == AbsSegs(call.dataset_root.abs, root)
    IN  {Str(call.dataset_root.abs,
             root \o SubSeq(f.segs, Len(rootSegs) + 1, Len(f.segs)), f.stem, f.ext) :
            f \in {g \in call.fs :
                      /\ IsPrefix(rootSegs, g.segs)
                      /\ LowerAtom(g.ext) \in normalize_exts(call.allowed_exts)}}

\* the references of the manifest rows, stripped, as the row loop reads them
RowRefs ==
    {strip(Cell(call.df, call.df.rows[i], ret.value.filename_col)) :
        i \in DOMAIN call.df.rows}

\* C1: after a manifest-reconciled scan no path of orphan_images is the path of
\* an ImageEntry of images, however the rows reached their files.
C1_OrphansAreNotImages ==
    ScanDone => Range(ret.value.orphan_images) \cap ImagePaths(ret.value) = {}

\* a scan with orphans left over whose two images were reached by the stem
\* index and by an absolute reference
C1_Witness ==
    /\ ScanDone
    /\ call.ids_without_ext
    /\ {R_a, R_abs_a_jpg} \subseteq RowRefs
    /\ Len(ret.value.images) = 2
    /\ ret.value.orphan_images # <<>>

\* C2 as stated: the orphan paths and the ImageEntry paths together are exactly
\* the listed files.
C2_UnionIsListing ==
    ScanDone => Range(ret.value.orphan_images) \cup ImagePaths(ret.value) = Listed

\* C2, amended: every listed file is an orphan or an ImageEntry path, every
\* orphan is a listed file, and every ImageEntry path is an existing file with
\* an allowed suffix (it need not be a listed one).
C2_ListingIsCovered ==
    ScanDone =>
        /\ Range(ret.value.orphan_images) \cup (ImagePaths(ret.value) \cap Listed)
                = Listed
        /\ \A p \in ImagePaths(ret.value) :
                /\ exists(call.fs, p)
                /\ LowerAtom(p.ext) \in normalize_exts(call.allowed_exts)

\* a scan with an image outside the images directory, an image that is listed
\* and an orphan
C2_Witness ==
    /\ ScanDone
    /\ R_other_x_jpg \in RowRefs
    /\ ImagePaths(ret.value) \ Listed # {}
    /\ ImagePaths(ret.value) \cap Listed # {}
    /\ ret.value.orphan_images # <<>>

\* C3 as stated: no two entries of images have the same path.
C3_ImagesUniqueByPath ==
    ScanDone =>
        \A i, j \in DOMAIN ret.value.images :
            i # j => ret.value.images[i].path # ret.value.images[j].path

SomeRowsShareAFile ==
    \E i, j \in DOMAIN ret.value.images :
        i # j /\ Loc(ret.value.images[i].path) = Loc(ret.value.images[j].path)

\* C9: with csv_row_count > 0, resolved_images <= csv_row_count (coverage is in
\* [0,1]), and resolved_images + len(missing_images) is below csv_row_count
\* only if several rows resolve to the same file.
C9_CoverageArithmetic ==
    (ScanDone /\ ret.value.csv_row_count > 0) =>
        /\ 0 <= ret.value.resolved_images
        /\ ret.value.resolved_images <= ret.value.csv_row_count
        /\ (ret.value.resolved_images + Len(ret.value.missing_images)
                < ret.value.csv_row_count => SomeRowsShareAFile)

\* two rows, one resolved and one missing; and two rows that share a file
C9_Witness ==
    /\ ScanDone
    /\ ret.value.csv_row_count = 2
    /\ ret.value.resolved_images = 1
    /\ Len(ret.value.missing_images) = 1

(***************************************************************************)
(* Properties of the checks (checked under SpecChecks).                    *)
(***************************************************************************)
DupCall == call.op = "find_duplicates" /\ call.method \in HASH_METHODS

DupDone == DupCall /\ ret.status = "ok"

\* the fingerprint of an input path under the selected strategy
Fingerprint(p) == hash_fn(call.method, p, call.files[p]).value

GroupsOf(p) == {k \in DOMAIN ret.value : p \in Range(ret.value[k].paths)}

\* C4: in the groups find_duplicates returns, two input paths share a group
\* iff their fingerprints are equal; every group has at least 2 paths, all of
\* them input paths; the groups are pairwise disjoint; a path whose
\* fingerprint is unique is in no group.
C4_GroupsAreFingerprintClasses ==
    DupDone =>
        /\ \A p, q \in Range(call.paths) :
              p # q => ((GroupsOf(p) \cap GroupsOf(q) # {})
                            <=> Fingerprint(p) = Fingerprint(q))
        /\ \A k \in DOMAIN ret.value :
              /\ Len(ret.value[k].paths) >= 2
              /\ NoRepeat(ret.value[k].paths)
              /\ Range(ret.value[k].paths) \subseteq Range(call.paths)
        /\ \A k, l \in DOMAIN ret.value :
              k # l => Range(ret.value[k].paths) \cap Range(ret.value[l].paths) = {}
        /\ \A p \in Range(call.paths) :
              (\A q \in Range(call.paths) : q # p => Fingerprint(q) # Fingerprint(p))
                  => GroupsOf(p) = {}

\* three paths, two of them sharing a fingerprint: one group, one path left out
C4_Witness ==
    /\ DupDone
    /\ Len(call.paths) = 3
    /\ Len(ret.value) = 1
    /\ \E p \in Range(call.paths) : GroupsOf(p) = {}

\* the input is two readable files with the same bytes under different names
TwoIdenticalFiles ==
    /\ DupCall
    /\ Len(call.paths) = 2
    /\ call.files[call.paths[1]].readable
    /\ call.files[call.paths[1]] = call.files[call.paths[2]]

OneGroupOfBoth ==
    /\ ret.status = "ok"
    /\ Len(ret.value) = 1
    /\ Len(ret.value[1].paths) = 2
    /\ Range(ret.value[1].paths) = Range(call.paths)

\* C5 as stated: two byte-identical files give exactly one group of size 2
\* under every strategy, whatever the content.
C5_IdenticalFilesOneGroup == TwoIdenticalFiles => OneGroupOfBoth

\* C5, amended: two byte-identical files give exactly one group of size 2 under
\* sha256 and quick, and under phash when the content decodes; when it does not
\* decode, phash returns no group.
C5_IdenticalFilesByStrategy ==
    TwoIdenticalFiles =>
        IF call.method = "phash" /\ ~Decodes(call.files[call.paths[1]])
            THEN ret.status = "ok" /\ ret.value = <<>>
            ELSE OneGroupOfBoth

\* two identical undecodable files hashed with phash
C5_Witness ==
    /\ TwoIdenticalFiles
    /\ call.method = "phash"
    /\ ~Decodes(call.files[call.paths[1]])
    /\ ret.status = "ok"

\* C6 as stated: a strategy name outside sha256, quick, phash makes
\* find_duplicates fail with a validation error, for every path list.
C6_UnknownMethodRaises ==
    (call.op = "find_duplicates" /\ call.method \notin HASH_METHODS)
        => ret = Raised("ValueError")

\* C7 as stated: a file that fails never aborts a stage: find_corrupted,
\* find_duplicates (any strategy) and collect_image_details return, with the
\* results of the other paths.
C7_NoStageAborts ==
    /\ call.op = "find_corrupted" =>
          /\ ret.status = "ok"
          /\ \A p \in Range(call.paths) :
                call.files[p].verify = VerifyOk
                    => \A i \in DOMAIN ret.value : ret.value[i].path # p
    /\ call.op = "collect_image_details" =>
          /\ ret.status = "ok"
          /\ {ret.value[i].path : i \in DOMAIN ret.value}
                = {p \in Range(call.paths) : HasStats(call.files[p])}
    /\ DupCall =>
          /\ ret.status = "ok"
          /\ \A p, q \in Range(call.paths) :
                (p # q /\ call.files[p].readable /\ call.files[q].readable
                    /\ Fingerprint(p) = Fingerprint(q))
                    => GroupsOf(p) \cap GroupsOf(q) # {}

\* the paths whose decode fails, in input order, each with its message
DecodeFailures ==
    LET failing == SelectSeq(call.paths,
                             LAMBDA p : verify_image(call.files[p]) # VerifyOk)
    IN  [i \in DOMAIN failing |->
            [path |-> failing[i], error |-> verify_image(call.files[failing[i]])]]

\* C8 as stated: find_corrupted returns exactly one (path, message) pair per
\* input path whose decode fails, whatever the message, in input order.
C8_EveryFailureListed ==
    call.op = "find_corrupted" => ret = Returned(DecodeFailures)

(***************************************************************************)
(* Properties of the column resolver (checked under SpecColumns).          *)
(***************************************************************************)
ColumnsDetected ==
    call.op = "resolve_columns" /\ call.filename_col_override = NoneCol

\* the headers equal, case-insensitively, to a filename candidate
ExactHeaders ==
    {i \in DOMAIN call.columns :
        LowerText(call.columns[i]) \in Range(FILENAME_CANDIDATES)}

\* the headers that contain a filename candidate
PartialHeaders ==
    {i \in DOMAIN call.columns :
        \E k \in DOMAIN FILENAME_CANDIDATES :
            IsSubstring(FILENAME_CANDIDATES[k], LowerText(call.columns[i]))}

LevelUsed == IF ExactHeaders # {} THEN ExactHeaders ELSE PartialHeaders

\* the match the resolver meets first: at the exact level the header of the
\* earliest candidate (the earliest such header), at the partial level the
\* earliest header
FirstEncountered ==
    IF ExactHeaders # {}
        THEN LET k == CHOOSE k \in DOMAIN FILENAME_CANDIDATES :
                        /\ \E i \in ExactHeaders :
                              LowerText(call.columns[i]) = FILENAME_CANDIDATES[k]
                        /\ \A j \in 1..(k - 1) : \A i \in ExactHeaders :
                              LowerText(call.columns[i]) # FILENAME_CANDIDATES[j]
                 i == CHOOSE i \in ExactHeaders :
                        /\ LowerText(call.columns[i]) = FILENAME_CANDIDATES[k]
                        /\ \A j \in ExactHeaders :
                              LowerText(call.columns[j]) = FILENAME_CANDIDATES[k]
                                  => i <= j
             IN  call.columns[i]
        ELSE call.columns[CHOOSE i \in PartialHeaders :
                            \A j \in PartialHeaders : i <= j]

\* C10 as stated: without an override the chosen filename column is an exact
\* match when there is one and otherwise a partial match, and whenever several
\* headers match at the level used a warning is recorded and the first match
\* encountered is selected.
C10_ChosenColumnAndWarning ==
    ColumnsDetected =>
        /\ LevelUsed # {} =>
              ret.value.filename_col \in {call.columns[i] : i \in LevelUsed}
        /\ Cardinality(LevelUsed) > 1 =>
              /\ FilenameWarning(ret.value.filename_col) \in Range(ret.value.warnings)
              /\ ret.value.filename_col = FirstEncountered

(***************************************************************************)
(* Properties of the manifest-reconciled scan, continued (SpecScan).       *)
(***************************************************************************)
ScanCall == call.op = "scan_mode_b"

\* some header of the manifest contains one of the candidates, ignoring case
\* (a header equal to a candidate contains it)
SomeHeaderMatches(candidates) ==
    \E i \in DOMAIN call.df.columns : \E k \in DOMAIN candidates :
        IsSubstring(candidates[k], LowerText(call.df.columns[i]))

\* no filename column can be determined: no override and no matching header
NoFilenameColumn ==
    call.filename_col_override = NoneCol /\ ~SomeHeaderMatches(FILENAME_CANDIDATES)

\* no label column can be determined
NoLabelColumn ==
    call.label_col_override = NoneCol /\ ~SomeHeaderMatches(LABEL_CANDIDATES)

\* the filename column is detected, or named by an override that the manifest has
FilenameColumnIsHeader ==
    IF call.filename_col_override = NoneCol THEN SomeHeaderMatches(FILENAME_CANDIDATES)
    ELSE call.filename_col_override \in Range(call.df.columns)

\* the column the row loop reads the references from
CallFilenameCol ==
    ResolveColumns(call.df.columns, call.filename_col_override,
                   call.label_col_override).filename_col

\* some row holds a reference on which stat() fails (see C13)
SomeRowCannotBeStatted ==
    /\ \E i \in DOMAIN call.df.rows : \E c \in DOMAIN call.df.rows[i] :
          StatFails(call.df.rows[i][c])
    /\ \E i \in DOMAIN call.df.rows :
          StatFails(Cell(call.df, call.df.rows[i], CallFilenameCol))

\* C11: a scan whose manifest has no determinable filename column raises the
\* configuration error and returns no ScanResult; a manifest with a filename
\* column and no detectable label column is scanned to the end (its rows being
\* paths stat() answers for), with no label column in the result and every
\* ImageEntry's label absent.
C11_NoFilenameColumnIsFatal ==
    ScanCall =>
        /\ NoFilenameColumn => ret = Raised("ValueError")
        /\ (FilenameColumnIsHeader /\ NoLabelColumn /\ ~SomeRowCannotBeStatted) =>
              /\ ret.status = "ok"
              /\ ret.value.label_col = NoneCol
              /\ \A i \in DOMAIN ret.value.images : ret.value.images[i].label = None

\* a manifest with rows, a label column and no filename column, over a dataset
\* that holds the file its row names
C11_Witness ==
    /\ ScanCall
    /\ NoFilenameColumn
    /\ ~NoLabelColumn
    /\ call.df.rows # <<>>
    /\ F_a_jpg \in call.fs
    /\ ret.status = "raised"

\* the reference of row i (1-based), stripped, as the row loop reads it
RowRef(i) == strip(Cell(call.df, call.df.rows[i], ret.value.filename_col))

\* the row holds a reference (its cell is not null, blank or "nan")
HasReference(i) ==
    /\ ~Cell(call.df, call.df.rows[i], ret.value.filename_col).null
    /\ RowRef(i) # EmptyText
    /\ lower(RowRef(i)) # NanText

\* the listed files whose lowercase stem is the lowercase stem of the reference
StemMates(ref) == {p \in Listed : LowerAtom(p.stem) = LowerAtom(ref.stem)}

\* the first of a non-empty set of paths in sorted order
FirstPath(S) == CHOOSE p \in S : \A q \in S : q # p => PathLess(p, q)

RowIsMissing(i) ==
    \E k \in DOMAIN ret.value.missing_images :
        ret.value.missing_images[k].row_index = i - 1

StemWarnings ==
    {ret.value.csv_warnings[k] : k \in
        {k \in DOMAIN ret.value.csv_warnings : ret.value.csv_warnings[k].kind = "stem"}}

\* C12: with ids_without_ext on, a row whose reference has no extension
\* resolves to the first listed path, in sorted order, whose lowercase stem is
\* the reference's lowercase stem; the ambiguity warning for the reference is
\* recorded exactly when several listed files share the stem; the row is a miss
\* under its reference when none does.
C12_StemResolution ==
    (ScanDone /\ call.ids_without_ext) =>
        \A i \in DOMAIN call.df.rows :
            (HasReference(i) /\ RowRef(i).ext = "") =>
                LET ref == RowRef(i)
                    mates == StemMates(ref)
                IN  /\ mates = {} =>
                          MissingImageEntry(i - 1, ref) \in Range(ret.value.missing_images)
                    /\ mates # {} =>
                          /\ ~RowIsMissing(i)
                          /\ FirstPath(mates) \in ImagePaths(ret.value)
                    /\ (\E w \in StemWarnings : w.id = ref) <=> Cardinality(mates) > 1
                    /\ Cardinality(mates) > 1 =>
                          StemWarning(ref, FirstPath(mates)) \in StemWarnings

\* three rows: "a" with two listed files of that stem, "B" reaching sub/B.JPG
\* through the lowered stem, and "a" again
C12_Witness ==
    /\ ScanDone
    /\ call.ids_without_ext
    /\ Len(call.df.rows) >= 2
    /\ \E i, j \in DOMAIN call.df.rows :
          /\ HasReference(i) /\ RowRef(i) = R_a /\ Cardinality(StemMates(R_a)) = 2
          /\ HasReference(j) /\ RowRef(j).stem = "B" /\ RowRef(j).ext = ""
          /\ StemMates(RowRef(j)) # {}
    /\ Len(ret.value.images) = 2
    /\ StemWarnings # {}

\* the cell of row i (1-based) in the filename column, and its stripped text
RawCell(i) == Cell(call.df, call.df.rows[i], CallFilenameCol)
Reference(i) == strip(RawCell(i))

\* the cell is null, blank or "nan"
IsEmptyReference(i) ==
    RawCell(i).null \/ Reference(i) = EmptyText \/ lower(Reference(i)) = NanText

\* the row goes through the stem index
ResolvesByStem(i) ==
    call.ids_without_ext /\ Reference(i).ext = ""

\* the candidate path of a row that holds a reference and has one
Candidate(i) ==
    IF ResolvesByStem(i) THEN FirstPath(StemMates(Reference(i)))
    ELSE resolve_relative(call.dataset_root,
                          JoinDir(call.dataset_root, call.images_dir), Reference(i))

\* the four reasons of a miss
IsMiss(i) ==
    \/ IsEmptyReference(i)
    \/ ResolvesByStem(i) /\ StemMates(Reference(i)) = {}
    \/ LowerAtom(Candidate(i).ext) \notin normalize_exts(call.allowed_exts)
    \/ Loc(Candidate(i)) \notin call.fs

MissingEntriesOf(i) ==
    {k \in DOMAIN ret.value.missing_images :
        ret.value.missing_images[k].row_index = i - 1}

\* C13 as stated: a scan over a manifest that has its filename column returns,
\* whatever its rows hold; a row has a MissingImageEntry (one, under its row
\* index) exactly when its reference is empty or "nan", has no candidate, has a
\* candidate whose extension is not allowed or whose file does not exist; the
\* rows that miss produce no ImageEntry.
C13_MissesAreRecorded ==
    (ScanCall /\ FilenameColumnIsHeader) =>
        /\ ret.status = "ok"
        /\ \A i \in DOMAIN call.df.rows :
              Cardinality(MissingEntriesOf(i)) = (IF IsMiss(i) THEN 1 ELSE 0)
        /\ Len(ret.value.images)
              = Cardinality({i \in DOMAIN call.df.rows : ~IsMiss(i)})

\* the rows, in order, whose reference goes through the stem index and meets
\* several listed files
AmbiguousRows ==
    SelectSeq([i \in DOMAIN call.df.rows |-> i],
              LAMBDA i : /\ call.ids_without_ext
                         /\ HasReference(i)
                         /\ RowRef(i).ext = ""
                         /\ Cardinality(StemMates(RowRef(i))) > 1)

\* the stem warnings of those rows, in row order
StemWarningsInRowOrder ==
    [k \in DOMAIN AmbiguousRows |->
        StemWarning(RowRef(AmbiguousRows[k]),
                    FirstPath(StemMates(RowRef(AmbiguousRows[k]))))]

IsColumnWarning(w) == w.kind \in {"filename_cols", "label_cols"}

\* C15: in the result of scan_mode_b the images are in ascending order of path,
\* the missing entries in ascending order of (row index, reference), the
\* orphans in ascending order, and the warnings in the order of discovery: the
\* column warnings (filename, then label), then the stem warnings of the rows
\* in row order.
C15_OutputOrder ==
    ScanDone =>
        LET scan == ret.value
            w == scan.csv_warnings
            n == Len(w) - Len(StemWarningsInRowOrder)
        IN  /\ \A i, j \in DOMAIN scan.images :
                  i < j => ~PathLess(scan.images[j].path, scan.images[i].path)
            /\ \A i, j \in DOMAIN scan.missing_images :
                  i < j => scan.missing_images[i].row_index
                              < scan.missing_images[j].row_index
            /\ \A i, j \in DOMAIN scan.orphan_images :
                  i < j => PathLess(scan.orphan_images[i], scan.orphan_images[j])
            /\ n >= 0
            /\ SubSeq(w, n + 1, Len(w)) = StemWarningsInRowOrder
            /\ \A k \in 1..n : IsColumnWarning(w[k])
            /\ \A k, l \in 1..n :
                  k < l => ~(w[k].kind = "label_cols" /\ w[l].kind = "filename_cols")

\* the rows "B" and "a" of a manifest with two filename and two label columns:
\* the images come out in the other order, after two column warnings and the
\* stem warning of "a"
C15_Witness ==
    /\ ScanDone
    /\ Len(call.df.rows) = 2
    /\ RowRef(1) = R_B
    /\ RowRef(2) = R_a
    /\ Len(ret.value.images) = 2
    /\ ret.value.images[1].path.stem = "a"
    /\ ret.value.orphan_images # <<>>
    /\ Len(ret.value.csv_warnings) = 3
    /\ ret.value.csv_warnings[1].kind = "filename_cols"
    /\ ret.value.csv_warnings[2].kind = "label_cols"
    /\ ret.value.csv_warnings[3].kind = "stem"

(***************************************************************************)
(* Properties of the filesystem-only scan (checked under SpecScanA).       *)
(***************************************************************************)
ScanADone == call.op = "scan_mode_a" /\ ret.status = "ok"

\* the files of the snapshot below the images root whose suffix, lowered, is
\* one of the allowed suffixes, lowered
AllowedFilesBelowRoot ==
    LET rootSegs == AbsSegs(call.dataset_root.abs,
                            Append(call.dataset_root.segs, call.images_dir))
    IN  {f \in call.fs :
            /\ IsPrefix(rootSegs, f.segs)
            /\ \E k \in DOMAIN call.allowed_exts :
                  LowerAtom(call.allowed_exts[k]) = LowerAtom(f.ext)}

\* the folders between the images root and the file an entry names
FoldersOf(entry) ==
    LET rootLen == Len(AbsSegs(call.dataset_root.abs, call.dataset_root.segs)) + 1
        segs == Loc(entry.path).segs
    IN  SubSeq(segs, rootLen + 1, Len(segs))

\* C14: scan_mode_a returns one ImageEntry per allowed-extension file below
\* the images root, resolved_images = total_images_scanned, and no missing or
\* orphan entries; with infer_classes the label of a file is the first folder
\* of its path below the images root, a file directly in the images root has
\* no label, and missing_label_count counts those files.
C14_FilesystemOnlyScan ==
    ScanADone =>
        LET scan == ret.value
            entries == Range(scan.images)
        IN  /\ {Loc(e.path) : e \in entries} = AllowedFilesBelowRoot
            /\ Len(scan.images) = Cardinality(AllowedFilesBelowRoot)
            /\ scan.resolved_images = Len(scan.images)
            /\ scan.resolved_images = scan.total_images_scanned
            /\ scan.missing_images = <<>>
            /\ scan.orphan_images = <<>>
            /\ call.infer_classes =>
                  /\ \A e \in entries :
                        e.label = IF FoldersOf(e) # <<>>
                                    THEN Word(FoldersOf(e)[1]) ELSE None
                  /\ scan.missing_label_count
                        = Cardinality({e \in entries : FoldersOf(e) = <<>>})

\* classes inferred over a dataset with two files in the images root, one in
\* a folder, one of a suffix that is not allowed and one outside the root
C14_Witness ==
    /\ ScanADone
    /\ call.infer_classes
    /\ call.fs = AllFiles
    /\ Len(ret.value.images) = 3
    /\ ret.value.missing_label_count = 2
    /\ \E i \in DOMAIN ret.value.images : ret.value.images[i].label = Word("sub")

(***************************************************************************)
(* Properties of the order of the duplicate groups (SpecCopies).           *)
(***************************************************************************)
\* the sets of input paths that share a fingerprint, two paths at least
FingerprintClasses ==
    {c \in {{p \in Range(call.paths) : Fingerprint(p) = Fingerprint(q)} :
                q \in Range(call.paths)} : Cardinality(c) >= 2}

\* C16: the groups find_duplicates returns are the fingerprint classes of the
\* input, in descending order of size and, at equal size, ascending order of
\* fingerprint, and the paths of a group are in ascending order: the result is
\* fixed by the set of input paths, not by their order.
C16_GroupOrder ==
    DupDone =>
        /\ {Range(ret.value[k].paths) : k \in DOMAIN ret.value} = FingerprintClasses
        /\ Len(ret.value) = Cardinality(FingerprintClasses)
        /\ \A k, l \in DOMAIN ret.value :
              k < l =>
                \/ Len(ret.value[k].paths) > Len(ret.value[l].paths)
                \/ /\ Len(ret.value[k].paths) = Len(ret.value[l].paths)
                   /\ ret.value[k].hash_value.hex < ret.value[l].hash_value.hex
        /\ \A k \in DOMAIN ret.value :
              \A i, j \in DOMAIN ret.value[k].paths :
                  i < j => PathLess(ret.value[k].paths[i], ret.value[k].paths[j])

\* two groups of two copies, the input naming a copy of the second group
\* first, and its paths in descending order
C16_Witness ==
    /\ DupDone
    /\ Len(call.paths) >= 4
    /\ Len(ret.value) = 2
    /\ Len(ret.value[1].paths) = 2
    /\ Len(ret.value[2].paths) = 2
    /\ call.paths[1] \in Range(ret.value[2].paths)
    /\ \A i, j \in DOMAIN call.paths : i < j => PathLess(call.paths[j], call.paths[i])

(***************************************************************************)
(* Properties of the dataset-level signals.                                *)
(***************************************************************************)
ImbalanceCall == call.op = "check_imbalance"

\* C17: check_imbalance answers true exactly when the histogram is present,
\* has two labels or more, and its smallest count is below a tenth of its
\* largest (some count is below a tenth of some other); {a:100, b:5} is
\* flagged, {a:100, b:15} and {a:100, b:10} are not, and an absent, empty or
\* single-label histogram never is.
C17_ImbalanceFlag ==
    ImbalanceCall =>
        LET h == call.counts
            labels == DOMAIN h.counts
        IN  /\ ret.status = "ok"
            /\ ret.value <=>
                  /\ ~h.absent
                  /\ Cardinality(labels) >= 2
                  /\ \E l, m \in labels : 10 * h.counts[l] < h.counts[m]
            /\ h = Histogram([l \in {"a", "b"} |-> IF l = "a" THEN 100 ELSE 5])
                  => ret.value
            /\ h = Histogram([l \in {"a", "b"} |-> IF l = "a" THEN 100 ELSE 15])
                  => ~ret.value
            /\ h = Histogram([l \in {"a", "b"} |-> IF l = "a" THEN 100 ELSE 10])
                  => ~ret.value
            /\ (h.absent \/ Cardinality(labels) <= 1) => ~ret.value

\* the histogram at the threshold, {a:100, b:10}, answered
C17_Witness ==
    /\ ImbalanceCall
    /\ call.counts = Histogram([l \in {"a", "b"} |-> IF l = "a" THEN 100 ELSE 10])
    /\ ret = Returned(FALSE)


(***************************************************************************)
(* C18: the small-resolution and aspect-ratio signals                      *)
(***************************************************************************)
HygieneCall == call # NoCall /\ call.op = "analyze_hygiene"

\* the images of the call whose shorter side is below the threshold
SmallImages ==
    {i \in DOMAIN call.details :
        call.details[i].width < SMALL_RES_THRESHOLD
            \/ call.details[i].height < SMALL_RES_THRESHOLD}

\* the images of the call one of whose sides is more than 3.0 times the other
OutlierImages ==
    {i \in DOMAIN call.details :
        \/ call.details[i].width > 3 * call.details[i].height
        \/ call.details[i].height > 3 * call.details[i].width}

\* image i comes before image j by descending ratio, then by path
RatioBefore(i, j) ==
    LET a == call.details[i]
        b == call.details[j]
        la == Max2(a.width, a.height)
        sa == Min2(a.width, a.height)
        lb == Max2(b.width, b.height)
        sb == Min2(b.width, b.height)
    IN  la * sb > lb * sa \/ (la * sb = lb * sa /\ a.path < b.path)

\* examples are the paths of the first EXAMPLE_LIMIT images of S in the strict
\* total order Before: the image with k - 1 images of S before it is at place k
IsFirstOf(examples, S, Before) ==
    /\ Len(examples) = Min2(EXAMPLE_LIMIT, Cardinality(S))
    /\ \A i \in S :
        LET place == Cardinality({j \in S : Before[j, i]}) + 1
        IN  place <= Len(examples) => examples[place] = call.details[i].path

\* C18 as stated: for every non-empty list of ImageStat records analyze_hygiene
\* returns a result, records with a width or height of 0 included; its
\* small_res_count is the number of images whose shorter side is below 64 and
\* small_res_examples the first 10 of their paths in ascending order; its
\* aspect_outlier_count is the number of images whose
\* max(width/height, height/width) exceeds 3.0 and aspect_outlier_examples the
\* first 10 of them by descending ratio and then by path.
C18_HygieneSignals ==
    (HygieneCall /\ call.details # <<>>) =>
        /\ ret.status = "ok"
        /\ ret.value.small_res_count = Cardinality(SmallImages)
        /\ ret.value.aspect_outlier_count = Cardinality(OutlierImages)
        /\ IsFirstOf(ret.value.small_res_examples, SmallImages,
                [i \in SmallImages, j \in SmallImages |->
                    call.details[i].path < call.details[j].path])
        /\ IsFirstOf(ret.value.aspect_outlier_examples, OutlierImages,
                [i \in OutlierImages, j \in OutlierImages |-> RatioBefore(i, j)])


(***************************************************************************)
(* C19: the mode-variance warning                                          *)
(***************************************************************************)
HygieneResult == HygieneCall /\ ret.status = "ok" /\ ~ret.value.absent

ModesPresent == {call.details[i].mode : i \in DOMAIN call.details}

ImagesOfMode(md) == Cardinality({i \in DOMAIN call.details : call.details[i].mode = md})

\* every mode, the most common one included, has fewer than 0.6 of the images
TopModeBelowSixTenths ==
    \A md \in ModesPresent : 10 * ImagesOfMode(md) < 6 * Len(call.details)

\* 9 images of 500 x 500 RGB and one of 20 x 20 RGBA
NineRgbOneRgba ==
    /\ Len(call.details) = 10
    /\ \E k \in DOMAIN call.details :
        /\ call.details[k].mode = "RGBA"
        /\ call.details[k].width = 20 /\ call.details[k].height = 20
        /\ \A i \in DOMAIN call.details : i # k =>
            /\ call.details[i].mode = "RGB"
            /\ call.details[i].width = 500 /\ call.details[i].height = 500

\* C19: in the result of analyze_hygiene mode_variance_warning is true exactly
\* when at least 3 distinct colour modes are present and the most common mode
\* has fewer than 0.6 of the images; with 1 or 2 modes present it is false
\* whatever their shares, as for 9 RGB images and 1 RGBA image.
C19_ModeVarianceWarning ==
    HygieneResult =>
        /\ ret.value.mode_variance_warning
            <=> (Cardinality(ModesPresent) >= 3 /\ TopModeBelowSixTenths)
        /\ Cardinality(ModesPresent) <= 2 => ~ret.value.mode_variance_warning
        /\ NineRgbOneRgba =>
            /\ ~ret.value.mode_variance_warning
            /\ ret.value.small_res_count = 1
            /\ ret.value.rgba_share = [num |-> 1, den |-> 10]

\* a warning is given: three modes, none with 0.6 of the images
C19_Witness ==
    /\ HygieneResult
    /\ Cardinality(ModesPresent) >= 3
    /\ TopModeBelowSixTenths
    /\ ret.value.mode_variance_warning


(***************************************************************************)
(* C20: label normalization                                                *)
(***************************************************************************)
\* a text of nothing but blanks
IsBlankText(v) == ~v.null /\ ~v.abs /\ v.segs = <<>> /\ v.stem = "" /\ v.ext = ""

\* the literal "nan" in any case, blanks around it or not
IsNanLiteral(v) ==
    ~v.null /\ ~v.abs /\ v.segs = <<>> /\ v.ext = "" /\ v.stem \in {"nan", "NaN"}

\* C20: label normalization is idempotent: normalizing, under the same flag,
\* the label normalize_label returned gives that label back; a value that is
\* null, blank or the literal "nan" in any case normalizes to absent, any
\* other value to its trimmed string, lower-cased when the flag is on.
C20_NormalizeLabel ==
    /\ call.op = "normalize_label_again" => ret.value = call.value
    /\ call.op = "normalize_label" =>
        ret.value =
            IF call.value.null \/ IsBlankText(call.value) \/ IsNanLiteral(call.value)
                THEN None
            ELSE IF call.enabled THEN lower(strip(call.value))
            ELSE strip(call.value)

\* a padded mixed-case label was lower-cased and trimmed, and normalized again
C20_Witness ==
    /\ call.op = "normalize_label_again"
    /\ call.enabled
    /\ call.raw = Padded(Word("Cat"))
    /\ call.value = Word("cat")
    /\ ret.value = Word("cat")


(***************************************************************************)
(* C22: one outcome per manifest row                                       *)
(***************************************************************************)
\* the rows that have no MissingImageEntry under their row index
RowsWithoutMiss == {i \in DOMAIN call.df.rows : MissingEntriesOf(i) = {}}

\* in the result every row has one MissingImageEntry or stands for one
\* ImageEntry, and the two counts add up to the number of rows
OneOutcomePerRow ==
    /\ \A i \in DOMAIN call.df.rows : Cardinality(MissingEntriesOf(i)) <= 1
    /\ \A k \in DOMAIN ret.value.missing_images :
          ret.value.missing_images[k].row_index + 1 \in DOMAIN call.df.rows
    /\ Len(ret.value.images) = Cardinality(RowsWithoutMiss)
    /\ ret.value.resolved_images = Len(ret.value.images)
    /\ ret.value.csv_row_count = Len(call.df.rows)
    /\ ret.value.resolved_images + Len(ret.value.missing_images)
          = ret.value.csv_row_count

\* C22 as stated: in a scan over a manifest that has its filename column every
\* row produces exactly one outcome, one ImageEntry or one MissingImageEntry,
\* never both and never neither, so that resolved_images + len(missing_images)
\* = csv_row_count, also when several rows reference the same file.
C22_OneOutcomePerRow ==
    (ScanCall /\ FilenameColumnIsHeader) =>
        /\ ret.status = "ok"
        /\ OneOutcomePerRow


(***************************************************************************)
(* C23: the missing-label count                                            *)
(***************************************************************************)
\* the label cell of row i (1-based) in the label column of the result
LabelCellOf(i) == Cell(call.df, call.df.rows[i], ret.value.label_col)

\* the rows whose normalized label is absent: every row when there is no label
\* column, else the rows whose label cell is null, blank or "nan" in any case
RowsWithoutLabel ==
    {i \in DOMAIN call.df.rows :
        \/ ret.value.label_col = NoneCol
        \/ LabelCellOf(i).null
        \/ IsBlankText(LabelCellOf(i))
        \/ IsNanLiteral(LabelCellOf(i))}

ImagesWithoutLabel ==
    {k \in DOMAIN ret.value.images : ret.value.images[k].label = None}

\* C23: in the result of a manifest-reconciled scan missing_label_count is the
\* number of manifest rows whose normalized label is absent, rows that became
\* a MissingImageEntry included; it is at least the number of ImageEntry with
\* an absent label, at most csv_row_count, and equal to csv_row_count when no
\* label column was found.
C23_MissingLabelCount ==
    ScanDone =>
        /\ ret.value.missing_label_count = Cardinality(RowsWithoutLabel)
        /\ ret.value.missing_label_count >= Cardinality(ImagesWithoutLabel)
        /\ ret.value.missing_label_count <= ret.value.csv_row_count
        /\ ret.value.label_col = NoneCol =>
              ret.value.missing_label_count = ret.value.csv_row_count

\* two rows under a label column: one resolved with its label, one missing
\* without a label, which is counted
C23_Witness ==
    /\ ScanDone
    /\ ret.value.label_col # NoneCol
    /\ ret.value.csv_row_count = 2
    /\ Len(ret.value.images) = 1
    /\ ImagesWithoutLabel = {}
    /\ Len(ret.value.missing_images) = 1
    /\ ret.value.missing_label_count = 1


(***************************************************************************)
(* C21: the pool runs do not depend on the interleaving of the workers     *)
(***************************************************************************)
PoolRunDone == call.op \in POOL_RUNS /\ ret # NoRet

\* what the run gives when every task is run and merged in turn, in the order
\* of paths, by one thread
OneByOne ==
    CASE call.op = "find_corrupted" -> find_corrupted(call.paths, call.files)
      [] call.op = "find_duplicates" ->
            find_duplicates(call.paths, call.method, call.files)
      [] OTHER -> collect_image_details(call.paths, call.files)

\* what the calling thread has merged is what merging the taken results in the
\* order of paths gives, whatever the workers have done since
RECURSIVE MergedInOrder(_)
MergedInOrder(i) ==
    IF i = 0 THEN <<>>
    ELSE IF pool.status[i] # "merged" \/ pool.result[i].raised THEN MergedInOrder(i - 1)
    ELSE Merged(call.op, MergedInOrder(i - 1), call.paths[i], pool.result[i].value)

\* C21: for a fixed path list and fixed per-file outcomes every interleaving
\* of the workers ends in the same corruption list, the same duplicate groups
\* (or the same exception) and the same ImageStat list, those of running the
\* tasks one by one in the order of paths; a worker writes the result of its
\* own task only, and the calling thread merges the results in the order of
\* paths.
C21_PoolRunsAreDeterministic ==
    /\ PoolRunDone => ret = OneByOne
    /\ PoolRunning =>
        /\ pool.acc = MergedInOrder(Len(call.paths))
        /\ \A i \in DOMAIN pool.status :
              pool.status[i] \in {"done", "merged"} =>
                pool.result[i] = WorkerResult(call.op, call.method, call.paths[i],
                                              call.files[call.paths[i]])
        /\ \A i, j \in DOMAIN pool.status :
              (i < j /\ pool.status[j] = "merged") => pool.status[i] = "merged"

\* a run of three tasks in which a later task finished before an earlier one,
\* with something to report
C21_Witness ==
    /\ PoolRunDone
    /\ Len(call.paths) = 3
    /\ pool.overtaken
    /\ ret.status = "ok"
    /\ Len(ret.value) >= 2

====
